---- MODULE Spec2Model ----
(***************************************************************************)
(* Quiz attempt lifecycle, response evaluation and scoring of the Skillora *)
(* backend (backend/quizzes/models.py, views.py, serializers.py).          *)
(*                                                                         *)
(* The database is the state: the quiz row, the enrollment row, the        *)
(* quiz_attempts rows, the question_responses rows and the quiz_analytics  *)
(* row.  Every view is one action (Spec); SpecConc runs start_quiz_attempt *)
(* as several requests whose database statements interleave; SpecScore     *)
(* applies calculate_score's arithmetic to inputs drawn from bounded sets. *)
(* Further specifications take one topic each: SpecAuth (callers and their *)
(* roles), SpecRace and SpecFinish (requests interleaved with whole        *)
(* views), SpecStats (calculate_analytics), SpecEdit (quiz edits against   *)
(* the snapshot of an attempt), SpecPayout and SpecLedger (the teacher's   *)
(* earnings and payout requests), SpecPay (confirm_payment) and SpecRefund *)
(* (refund requests).                                                      *)
(***************************************************************************)
EXTENDS Integers, Sequences, FiniteSets, TLC

VARIABLES
    now,        \* timezone.now(), in ticks
    quiz,       \* the Quiz row
    enrollment, \* status of the student's Enrollment row for quiz.course
    attempts,   \* quiz_attempts rows, in creation order (index = row id)
    responses,  \* question_responses rows
    analytics,  \* the quiz_analytics row of the quiz, or NoRow
    last,       \* the last request served and its HTTP response
    req,        \* SpecConc: local variables of each in-flight start request
    calc,       \* SpecScore: inputs and results of one calculate_score run
    ledger      \* the teacher's bank account, earnings and payouts; the payment

vars == <<now, quiz, enrollment, attempts, responses, analytics, last, req, calc, ledger>>

----------------------------------------------------------------------------
(* Bounds of the model *)

MaxTime == 2          \* the clock stops after this many ticks
MaxAttemptsBound == 2 \* quiz.max_attempts is drawn from 1..MaxAttemptsBound
MaxRequests == 2      \* SpecConc: start requests issued per client connection
MaxTotal == 50        \* SpecScore: largest sum of question points

NoTime == -1          \* a NULL DateTimeField
NoRow == [exists |-> FALSE]

\* the payout tables of a teacher who has no bank account, no earnings row
\* and no payout request
NoLedger == [bank_account |-> "none", earnings |-> NoRow, payout_requests |-> << >>]

----------------------------------------------------------------------------
(* IEEE-754 binary64 arithmetic, as far as calculate_score uses it.        *)
(* A positive double is [m |-> <<l1, l2, l3, l4, l5>>, e |-> exponent]:    *)
(* the 53-bit mantissa M = l1*2^52 + l2*2^39 + l3*2^26 + l4*2^13 + l5 in   *)
(* limbs of 13 bits (l1 = 1 is the leading bit), and the value is M * 2^e. *)
(* Zero has the empty mantissa.  Python's int / int is the correctly       *)
(* rounded quotient and float * int the correctly rounded product (round   *)
(* to nearest, ties to even).  The limbs keep every intermediate value     *)
(* below 2^31.                                                             *)

Limb == 8192   \* 2^13

FZero == [m |-> <<>>, e |-> 0]

RECURSIVE Pow2(_)
Pow2(n) == IF n = 0 THEN 1 ELSE 2 * Pow2(n - 1)

RECURSIVE ShiftUntil(_, _, _)
\* the least s >= 0 with a * 2^s >= d
ShiftUntil(a, d, s) == IF a >= d THEN s ELSE ShiftUntil(2 * a, d, s + 1)

RECURSIVE BitLen(_)
BitLen(n) == IF n = 0 THEN 0 ELSE 1 + BitLen(n \div 2)

\* the mantissa plus one unit in the last place; 2^53 renormalises to 2^52
\* with the exponent raised
FInc(m, e) ==
    LET c5 == IF m[5] + 1 = Limb THEN 1 ELSE 0
        c4 == IF m[4] + c5 = Limb THEN 1 ELSE 0
        c3 == IF m[3] + c4 = Limb THEN 1 ELSE 0
        c2 == IF m[2] + c3 = Limb THEN 1 ELSE 0
    IN  IF m[1] + c2 = 2
        THEN [m |-> <<1, 0, 0, 0, 0>>, e |-> e + 1]
        ELSE [m |-> <<m[1], (m[2] + c3) % Limb, (m[3] + c4) % Limb,
                      (m[4] + c5) % Limb, (m[5] + 1) % Limb>>,
              e |-> e]

\* round to nearest, ties to even: guard is the first discarded bit, sticky
\* tells whether any later discarded bit is set
FRound(m, e, guard, sticky) ==
    IF guard = 1 /\ (sticky = 1 \/ m[5] % 2 = 1)
    THEN FInc(m, e)
    ELSE [m |-> m, e |-> e]

\* a / b for integers 0 <= a <= b, 0 < b < 2^17: Python's true division
FDivInt(a, b) ==
    IF a = 0 THEN FZero
    ELSE LET s == ShiftUntil(a, b, 0)
             r1 == a * Pow2(s) - b            \* b <= a * 2^s < 2b: l1 = 1
             l2 == (r1 * Limb) \div b
             r2 == (r1 * Limb) % b
             l3 == (r2 * Limb) \div b
             r3 == (r2 * Limb) % b
             l4 == (r3 * Limb) \div b
             r4 == (r3 * Limb) % b
             l5 == (r4 * Limb) \div b
             r5 == (r4 * Limb) % b
             guard == IF 2 * r5 >= b THEN 1 ELSE 0
             sticky == IF 2 * r5 > b THEN 1 ELSE 0
         IN  FRound(<<1, l2, l3, l4, l5>>, 0 - s - 52, guard, sticky)

\* f * k for a double f >= 0 and an integer 1 <= k < 2^12
FMulInt(f, k) ==
    IF f.m = <<>> THEN FZero
    ELSE LET v5 == f.m[5] * k
             v4 == f.m[4] * k + (v5 \div Limb)
             v3 == f.m[3] * k + (v4 \div Limb)
             v2 == f.m[2] * k + (v3 \div Limb)
             p1 == f.m[1] * k + (v2 \div Limb)
             p2 == v2 % Limb
             p3 == v3 % Limb
             p4 == v4 % Limb
             p5 == v5 % Limb
             x == BitLen(p1) - 1              \* bits beyond the 53
             d == Pow2(x)
             up == Limb \div d
             guard == IF x = 0 THEN 0 ELSE (p5 \div (d \div 2)) % 2
             sticky == IF x = 0 THEN 0
                       ELSE IF p5 % (d \div 2) # 0 THEN 1 ELSE 0
         IN  FRound(<<p1 \div d,
                      (p2 \div d) + (p1 % d) * up,
                      (p3 \div d) + (p2 % d) * up,
                      (p4 \div d) + (p3 % d) * up,
                      (p5 \div d) + (p4 % d) * up>>,
                    f.e + x, guard, sticky)

\* floor(f) for a double 0 <= f < 2^14
FFloor(f) ==
    IF f.m = <<>> \/ f.e <= 0 - 53 THEN 0
    ELSE (f.m[1] * Limb + f.m[2]) \div Pow2(0 - f.e - 39)

\* f >= p for a double f >= 0 and an integer p: Python compares the two
\* exactly, and for an integer p, f >= p iff floor(f) >= p
FGeInt(f, p) == FFloor(f) >= p

----------------------------------------------------------------------------
(* Static content: the question rows and their answer rows.  q1 is a       *)
(* short_answer question worth 1 point with one answer row, flagged        *)
(* correct; q2 an essay question worth 2 points; q3 a multiple_choice      *)
(* question with answers A, B, C, of which A and C are flagged correct; q4 *)
(* a true_false question with answers T (flagged correct) and F.  The      *)
(* questions of the model's quiz are quiz.questions; the other rows belong *)
(* to other quizzes.                                                       *)

Students == {"s1"}

QuestionIds == {"q1", "q2", "q3", "q4"}

Question ==
    [q \in QuestionIds |->
        CASE q = "q1" -> [question_type |-> "short_answer", points |-> 1,
                          order |-> 1]
          [] q = "q2" -> [question_type |-> "essay", points |-> 2, order |-> 2]
          [] q = "q3" -> [question_type |-> "multiple_choice", points |-> 2,
                          order |-> 3]
          [] q = "q4" -> [question_type |-> "true_false", points |-> 1,
                          order |-> 4]]

AnswerIds == {"a1", "A", "B", "C", "T", "F"}

Answer ==
    [a \in AnswerIds |->
        CASE a = "a1" -> [question |-> "q1", answer_text |-> "right",
                          is_correct |-> TRUE, order |-> 1]
          [] a = "A" -> [question |-> "q3", answer_text |-> "A",
                         is_correct |-> TRUE, order |-> 1]
          [] a = "B" -> [question |-> "q3", answer_text |-> "B",
                         is_correct |-> FALSE, order |-> 2]
          [] a = "C" -> [question |-> "q3", answer_text |-> "C",
                         is_correct |-> TRUE, order |-> 3]
          [] a = "T" -> [question |-> "q4", answer_text |-> "True",
                         is_correct |-> TRUE, order |-> 1]
          [] a = "F" -> [question |-> "q4", answer_text |-> "False",
                         is_correct |-> FALSE, order |-> 2]]

\* str.strip().lower() on the texts of the model
StripLower(t) ==
    CASE t = " Right " -> "right"
      [] t = "RIGHT" -> "right"
      [] OTHER -> t

\* request.data of submit_question_response: the keys the payload carries
\* and their values (the value of a key it does not carry is not read)
Payload(keys, text, ids, correct) ==
    [keys |-> keys, text_response |-> text, selected_answer_ids |-> ids,
     is_correct |-> correct, question |-> ""]

Has(payload, key) == key \in payload.keys

Empty == Payload({}, "", {}, FALSE)
TextRight == Payload({"text_response"}, "right", {}, FALSE)
TextWrong == Payload({"text_response"}, "wrong", {}, FALSE)
TextEssay == Payload({"text_response"}, "an essay", {}, FALSE)
NoAnswers == Payload({"selected_answer_ids"}, "", {}, FALSE)
ClaimCorrect == Payload({"is_correct"}, "", {}, TRUE)

\* the (question, payload) pairs learners submit
SubmitInputs ==
    { <<"q1", TextRight>>, <<"q1", TextWrong>>, <<"q1", NoAnswers>>,
      <<"q2", TextEssay>>, <<"q2", ClaimCorrect>> }

\* request.data['points_earned'] of grade_essay_response
GradePoints == -1 .. 3

PassingScores == {60}
TimeLimits == {0, 1}      \* time_limit_minutes; 0 stands for NULL (no limit)

----------------------------------------------------------------------------
(* Quiz and QuizAttempt *)

\* Quiz.is_available
is_available(qz, t) ==
    IF qz.available_from # NoTime /\ t < qz.available_from THEN FALSE
    ELSE IF qz.available_until # NoTime /\ t > qz.available_until THEN FALSE
    ELSE qz.is_active

\* a clock comparison that never finds an attempt expired
NeverExpired(a, t) == FALSE

\* QuizAttempt.is_expired
is_expired(a, t) == a.expires_at # NoTime /\ t > a.expires_at

\* ids of the attempt rows of a student (there is one quiz)
AttemptsOf(rows, s) == {i \in 1 .. Len(rows) : rows[i].student = s}

\* a lookup that never finds an in_progress attempt
NoInProgress(rows, s) == 0

\* QuizAttempt.objects.filter(status='in_progress').first() under the model's
\* ordering ['-created_at']: the newest such row, 0 when there is none
InProgressOf(rows, s) ==
    LET ids == {i \in AttemptsOf(rows, s) : rows[i].status = "in_progress"}
    IN  IF ids = {} THEN 0 ELSE CHOOSE i \in ids : \A j \in ids : j <= i

\* a table without the unique constraint
NoUniqueTogether(rows, s, n) == FALSE

\* unique_together = ['quiz', 'student', 'attempt_number']
UniqueTogetherViolated(rows, s, n) ==
    \E i \in 1 .. Len(rows) : rows[i].student = s /\ rows[i].attempt_number = n

\* the behavioural flags of a quiz row, at their field defaults
DefaultFlags ==
    [shuffle_questions |-> FALSE, shuffle_answers |-> FALSE,
     show_correct_answers |-> TRUE, show_score_immediately |-> TRUE,
     allow_review |-> TRUE]

\* QuizAttempt.objects.create(quiz, student, enrollment, attempt_number): the
\* other columns take the field defaults (quiz_settings: the empty dict)
NewAttempt(s, n) ==
    [student |-> s, attempt_number |-> n, status |-> "not_started",
     score_points |-> 0, score_percentage |-> FZero, passed |-> FALSE,
     time_limit_minutes |-> 0, time_spent_seconds |-> 0,
     started_at |-> NoTime, completed_at |-> NoTime, expires_at |-> NoTime,
     quiz_settings |-> << >>]

\* QuizAttempt.start_attempt (called on a not_started row)
start_attempt(a, qz, t) ==
    LET limited == qz.time_limit_minutes # 0
    IN  [a EXCEPT !.status = "in_progress",
                  !.started_at = t,
                  !.time_limit_minutes =
                      IF limited THEN qz.time_limit_minutes ELSE @,
                  !.expires_at =
                      IF limited THEN t + qz.time_limit_minutes ELSE @,
                  !.quiz_settings = qz.flags]

----------------------------------------------------------------------------
(* QuestionResponse *)

ResponsesOf(rows, aid) == {r \in rows : r.attempt = aid}

RECURSIVE SumOver(_, _)
\* the sum of f[x] over the finite set S
SumOver(S, f) ==
    IF S = {} THEN 0
    ELSE LET x == CHOOSE y \in S : TRUE
         IN  f[x] + SumOver(S \ {x}, f)

\* Answer.Meta.ordering = ['question', 'order'], the questions in their own
\* ordering (Question.order)
AnswerBefore(a, b) ==
    \/ Question[Answer[a].question].order < Question[Answer[b].question].order
    \/ /\ Answer[a].question = Answer[b].question
       /\ Answer[a].order <= Answer[b].order

\* the first row of a set of answers under Answer's ordering, "" for None
FirstAnswer(ids) ==
    IF ids = {} THEN ""
    ELSE CHOOSE a \in ids : \A b \in ids : AnswerBefore(a, b)

\* the is_correct that QuestionResponse.evaluate_response computes
EvaluatedCorrect(r) ==
    LET qt == Question[r.question].question_type
        correct == {a \in AnswerIds :
                       Answer[a].question = r.question /\ Answer[a].is_correct}
    IN  CASE qt = "multiple_choice" -> correct = r.selected_answers
          [] qt = "true_false" ->
                FirstAnswer(correct) = FirstAnswer(r.selected_answers)
          [] qt \in {"short_answer", "fill_blank"} ->
                \E a \in correct :
                    StripLower(Answer[a].answer_text) = StripLower(r.text_response)
          [] qt = "essay" -> FALSE
          [] OTHER -> r.is_correct

\* QuestionResponse.evaluate_response: is_correct, then points_earned
evaluate_response(r) ==
    LET ok == EvaluatedCorrect(r)
    IN  [r EXCEPT !.is_correct = ok,
                  !.points_earned =
                      IF ok THEN Question[r.question].points ELSE 0]

\* QuizAttempt.calculate_score, the arithmetic: the score fields from the
\* points earned, the points possible and the quiz's passing_score
ScoreFields(earned_points, total_points, passing_score) ==
    LET pct == IF total_points > 0
               THEN FMulInt(FDivInt(earned_points, total_points), 100)
               ELSE FZero
    IN  [score_points |-> earned_points,
         score_percentage |-> pct,
         passed |-> FGeInt(pct, passing_score)]

\* a scoring that copies the quiz's current flags into the attempt
CopySettings(a, rs, qz) == [a EXCEPT !.quiz_settings = qz.flags]

\* QuizAttempt.calculate_score: the loop over the attempt's responses
calculate_score(a, rs, qz) ==
    LET total_points == SumOver(rs, [r \in rs |-> Question[r.question].points])
        earned_points ==
            SumOver(rs, [r \in rs |->
                IF r.is_correct THEN Question[r.question].points ELSE 0])
        f == ScoreFields(earned_points, total_points, qz.passing_score)
    IN  [a EXCEPT !.score_points = f.score_points,
                  !.score_percentage = f.score_percentage,
                  !.passed = f.passed]

\* a completion that is accepted on completed attempts as well
CompletableOrCompleted == {"in_progress", "time_expired", "completed"}

\* the statuses QuizAttempt.complete_attempt accepts
CompletableStatuses == {"in_progress", "time_expired"}

\* QuizAttempt.complete_attempt (on a row in a completable status)
complete_attempt(a, rs, qz, t) ==
    calculate_score(
        [a EXCEPT !.status = "completed",
                  !.completed_at = t,
                  !.time_spent_seconds =
                      IF a.started_at # NoTime THEN t - a.started_at ELSE @],
        rs, qz)

----------------------------------------------------------------------------
(* QuizAnalytics *)

\* the row QuizAnalytics.objects.get_or_create(quiz=quiz) inserts at time t
NewAnalytics(t) ==
    [exists |-> TRUE, total_attempts |-> 0, completed_attempts |-> 0,
     average_score |-> FZero, pass_rate |-> FZero,
     average_completion_time |-> 0, question_stats |-> << >>,
     last_calculated |-> t]

\* a filter that also counts the attempts closed by expiry
ClosedIds(rows) ==
    {i \in 1 .. Len(rows) : rows[i].status \in {"completed", "time_expired"}}

\* attempts.filter(status='completed')
CompletedIds(rows) == {i \in 1 .. Len(rows) : rows[i].status = "completed"}

RECURSIVE ScoresOf(_, _, _)
\* the score_percentage of the rows ids among rows[1..i], in the queryset's
\* order (Meta.ordering = ['-created_at']: the newest row first)
ScoresOf(rows, ids, i) ==
    IF i = 0 THEN << >>
    ELSE (IF i \in ids THEN <<rows[i].score_percentage>> ELSE << >>)
             \o ScoresOf(rows, ids, i - 1)

\* sum(scores) / n, kept as the term it denotes: the addends in the order
\* they are added, and the divisor
Average(scores, n) == [sum |-> scores, over |-> n]

\* QuizAnalytics.calculate_question_stats: an entry for every question of
\* the quiz that has a response in a completed attempt (no payload of the
\* model carries time_spent_seconds, whose default is 0)
calculate_question_stats(rows, rs, qz) ==
    LET of(q) == {r \in rs : /\ r.question = q
                             /\ r.attempt \in 1 .. Len(rows)
                             /\ rows[r.attempt].status = "completed"}
        answered == {q \in qz.questions : of(q) # {}}
    IN  [q \in answered |->
            LET total_responses == Cardinality(of(q))
                correct_responses == Cardinality({r \in of(q) : r.is_correct})
            IN  [total_responses |-> total_responses,
                 correct_responses |-> correct_responses,
                 accuracy_percentage |->
                     FMulInt(FDivInt(correct_responses, total_responses), 100),
                 average_time |-> 0]]

\* QuizAnalytics.calculate_analytics over the attempt rows rows and the
\* response rows rs of quiz qz, at time t (save() sets the auto_now column
\* last_calculated)
calculate_analytics(an, rows, rs, qz, t) ==
    LET completed == CompletedIds(rows)
        n == Cardinality(completed)
        passed_attempts == Cardinality({i \in completed : rows[i].passed})
        total_time ==
            SumOver(completed, [i \in completed |-> rows[i].time_spent_seconds])
    IN  IF n > 0
        THEN [an EXCEPT !.total_attempts = Len(rows),
                        !.completed_attempts = n,
                        !.average_score =
                            Average(ScoresOf(rows, completed, Len(rows)), n),
                        !.pass_rate = FMulInt(FDivInt(passed_attempts, n), 100),
                        !.average_completion_time = total_time \div n,
                        !.question_stats = calculate_question_stats(rows, rs, qz),
                        !.last_calculated = t]
        ELSE [an EXCEPT !.total_attempts = Len(rows),
                        !.completed_attempts = n,
                        !.last_calculated = t]

----------------------------------------------------------------------------
(* Initial state: the quiz exists with its questions, the student may or   *)
(* may not hold an active enrollment, nobody has attempted the quiz.       *)

NoPayload == [keys |-> {}]

Idle == [pc |-> "idle", student |-> "s1", count |-> 0, copy |-> NoRow,
         issued |-> 0, result |-> "none", attempt |-> 0,
         question |-> "", payload |-> NoPayload, raced |-> FALSE]

Procs == {"r1", "r2"}

NoCalc == [earned |-> 0, total |-> 0, passing_score |-> 0, done |-> FALSE,
           score_percentage |-> FZero, passed |-> FALSE]

\* the quiz rows the model starts from: a quiz that allows one attempt holds
\* both questions, with or without a time limit; a quiz that allows several
\* holds the short_answer question and is timed
QuizRows ==
    { qz \in [is_active : BOOLEAN,
              max_attempts : 1 .. MaxAttemptsBound,
              passing_score : PassingScores,
              time_limit_minutes : TimeLimits,
              available_from : {NoTime},
              available_until : {NoTime},
              questions : {{"q1"}, {"q1", "q2"}},
              flags : {DefaultFlags}] :
        /\ qz.questions = IF qz.max_attempts = 1 THEN {"q1", "q2"} ELSE {"q1"}
        /\ qz.max_attempts > 1 => qz.time_limit_minutes # 0 }

NoRequest ==
    [op |-> "none", attempt |-> 0, result |-> "none", question |-> "",
     payload |-> Empty, points |-> 0, amount |-> 0]

InitDb ==
    /\ now = 0
    /\ quiz \in QuizRows
    /\ enrollment \in {"active", "cancelled"}
    /\ attempts = <<>>
    /\ responses = {}
    /\ analytics = NoRow
    /\ last = NoRequest

Init ==
    /\ InitDb
    /\ req = [p \in Procs |-> Idle]
    /\ calc = NoCalc
    /\ ledger = NoLedger

\* the clock advances
Tick ==
    /\ now < MaxTime
    /\ now' = now + 1
    /\ UNCHANGED <<quiz, enrollment, attempts, responses, analytics, last, req, calc, ledger>>

----------------------------------------------------------------------------
(* The views, each served as a whole *)

Reply(op, aid, result) ==
    last' = [op |-> op, attempt |-> aid, result |-> result,
             question |-> "", payload |-> Empty, points |-> 0, amount |-> 0]

\* submit_question_response accepted a request: the question and the
\* request.data it was served with, and its reply
ReplySubmit(aid, result, q, payload) ==
    last' = [op |-> "submit", attempt |-> aid, result |-> result,
             question |-> q, payload |-> payload, points |-> 0, amount |-> 0]

\* grade_essay_response found the response: the points_earned the request
\* carried, and its reply
ReplyGrade(aid, result, q, p) ==
    last' = [op |-> "grade", attempt |-> aid, result |-> result,
             question |-> q, payload |-> Empty, points |-> p, amount |-> 0]

\* the status of user s's Enrollment row for quiz.course ("none": no row);
\* s1 is the student of the model
EnrollmentOf(s) == IF s = "s1" THEN enrollment ELSE "none"

\* POST start_quiz_attempt by learner s
start_quiz_attempt(s) ==
    LET count == Cardinality(AttemptsOf(attempts, s))
        ip == InProgressOf(attempts, s)
        expired == ip # 0 /\ is_expired(attempts[ip], now)
        rows == IF expired
                THEN [attempts EXCEPT ![ip].status = "time_expired"]
                ELSE attempts
    IN  /\ UNCHANGED <<now, quiz, enrollment, responses, analytics, req, calc, ledger>>
        /\ IF EnrollmentOf(s) # "active"
           THEN UNCHANGED attempts /\ Reply("start", 0, "404")
           ELSE IF ~is_available(quiz, now)
           THEN UNCHANGED attempts /\ Reply("start", 0, "400_unavailable")
           ELSE IF count >= quiz.max_attempts
           THEN UNCHANGED attempts /\ Reply("start", 0, "400_max_attempts")
           ELSE IF ip # 0 /\ ~expired
           THEN UNCHANGED attempts /\ Reply("start", ip, "200_resumed")
           ELSE IF UniqueTogetherViolated(rows, s, count + 1)
           THEN attempts' = rows /\ Reply("start", 0, "500_integrity")
           ELSE /\ attempts' =
                      Append(rows, start_attempt(NewAttempt(s, count + 1), quiz, now))
                /\ Reply("start", Len(rows) + 1, "201_created")

\* a lookup that matches the attempts of every student
OwnedByAnyone(a, user) == TRUE

\* the filter student=request.user of the attempt lookups
OwnedBy(a, user) == a.student = user

\* a table without the unique constraint on responses
NoResponseConstraint(rows, aid, q) == FALSE

\* unique_together = ['attempt', 'question']
ResponseExists(rows, aid, q) ==
    \E r \in rows : r.attempt = aid /\ r.question = q

\* the row QuestionResponse.objects.get_or_create inserts: the lookup and the
\* defaults, which are the request's payload
CreatedResponse(aid, q, payload) ==
    [attempt |-> aid, question |-> q, selected_answers |-> {},
     text_response |->
         IF Has(payload, "text_response") THEN payload.text_response ELSE "",
     is_correct |->
         IF Has(payload, "is_correct") THEN payload.is_correct ELSE FALSE,
     points_earned |-> 0, feedback |-> FALSE]

\* QuestionResponseSerializer.update with partial=True
UpdatedResponse(r, payload) ==
    evaluate_response(
        [r EXCEPT !.question =
                      IF Has(payload, "question") THEN payload.question ELSE @,
                  !.text_response =
                      IF Has(payload, "text_response")
                      THEN payload.text_response ELSE @,
                  !.selected_answers =
                      IF Has(payload, "selected_answer_ids")
                      THEN payload.selected_answer_ids \cap AnswerIds ELSE @])

\* a lookup that finds completed attempts as well
SubmittableOrCompleted == {"in_progress", "completed"}

\* the status submit_question_response looks the attempt up with
SubmittableStatuses == {"in_progress"}

\* POST submit_question_response by learner s
submit_question_response(s, aid, q, payload) ==
    LET found == /\ aid \in 1 .. Len(attempts)
                 /\ OwnedBy(attempts[aid], s)
                 /\ attempts[aid].status \in SubmittableStatuses
        existing == {r \in responses : r.attempt = aid /\ r.question = q}
    IN  /\ UNCHANGED <<now, quiz, enrollment, analytics, req, calc, ledger>>
        /\ IF ~found
           THEN UNCHANGED <<attempts, responses>> /\ Reply("submit", aid, "404")
           ELSE IF is_expired(attempts[aid], now)
           THEN /\ attempts' = [attempts EXCEPT ![aid].status = "time_expired"]
                /\ UNCHANGED responses
                /\ Reply("submit", aid, "400_expired")
           ELSE IF q \notin quiz.questions
           THEN UNCHANGED <<attempts, responses>> /\ Reply("submit", aid, "404")
           ELSE IF existing = {}
           THEN /\ UNCHANGED attempts
                /\ IF Has(payload, "selected_answer_ids")
                   THEN \* get_or_create rejects a key that is no model field
                        UNCHANGED responses /\ Reply("submit", aid, "500_field_error")
                   ELSE IF Has(payload, "question")
                   THEN \* the defaults override the lookup's question with an
                        \* id, which is no Question instance
                        UNCHANGED responses /\ Reply("submit", aid, "500_value_error")
                   ELSE /\ responses' = responses \cup {CreatedResponse(aid, q, payload)}
                        /\ ReplySubmit(aid, "200_created", q, payload)
           ELSE IF /\ Has(payload, "question") /\ payload.question # q
                   /\ ResponseExists(responses, aid, payload.question)
           THEN \* instance.save() moves the row onto an existing pair
                UNCHANGED <<attempts, responses>> /\ Reply("submit", aid, "500_integrity")
           ELSE /\ UNCHANGED attempts
                /\ responses' = (responses \ existing)
                                    \cup {UpdatedResponse(r, payload) : r \in existing}
                /\ ReplySubmit(aid, "200_updated", q, payload)

\* POST complete_quiz_attempt by learner s
complete_quiz_attempt(s, aid) ==
    LET found == /\ aid \in 1 .. Len(attempts)
                 /\ OwnedBy(attempts[aid], s)
                 /\ attempts[aid].status \in CompletableStatuses
        rows == [attempts EXCEPT ![aid] =
                    complete_attempt(@, ResponsesOf(responses, aid), quiz, now)]
    IN  /\ UNCHANGED <<now, quiz, enrollment, responses, req, calc, ledger>>
        /\ IF ~found
           THEN UNCHANGED <<attempts, analytics>> /\ Reply("complete", aid, "404")
           ELSE /\ attempts' = rows
                /\ analytics' =
                      calculate_analytics(
                          IF analytics = NoRow THEN NewAnalytics(now) ELSE analytics,
                          rows, responses, quiz, now)
                /\ Reply("complete", aid, "200")

\* the response row after grade_essay_response accepted points p
GradedResponse(r, p) ==
    [r EXCEPT !.points_earned = p,
              !.is_correct = (p = Question[r.question].points),
              !.feedback = TRUE]

\* POST grade_essay_response by the course's teacher, naming response row r
\* (NoRow: an id that names no response)
grade_essay_response(r, p) ==
    LET found == r \in responses /\ Question[r.question].question_type = "essay"
        graded == (responses \ {r}) \cup {GradedResponse(r, p)}
    IN  /\ UNCHANGED <<now, quiz, enrollment, analytics, req, calc, ledger>>
        /\ IF ~found
           THEN UNCHANGED <<attempts, responses>> /\ Reply("grade", 0, "404")
           ELSE IF p < 0 \/ p > Question[r.question].points
           THEN UNCHANGED <<attempts, responses>> /\ ReplyGrade(r.attempt, "400_points", r.question, p)
           ELSE /\ responses' = graded
                /\ attempts' = [attempts EXCEPT ![r.attempt] =
                       calculate_score(@, ResponsesOf(graded, r.attempt), quiz)]
                /\ ReplyGrade(r.attempt, "200", r.question, p)

\* GET QuizAttemptDetailView by learner s: the row is serialized as stored
attempt_detail(s, aid) ==
    /\ UNCHANGED <<now, quiz, enrollment, attempts, responses, analytics, req, calc, ledger>>
    /\ IF aid \in 1 .. Len(attempts) /\ attempts[aid].student = s
       THEN Reply("detail", aid, "200")
       ELSE Reply("detail", 0, "404")

\* the attempt ids requests name: every row, and one id that names no row
AttemptIds == 1 .. (Len(attempts) + 1)

Start == \E s \in Students : start_quiz_attempt(s)

Submit ==
    \E s \in Students, aid \in AttemptIds, in \in SubmitInputs :
        submit_question_response(s, aid, in[1], in[2])

Complete == \E s \in Students, aid \in AttemptIds : complete_quiz_attempt(s, aid)

Grade ==
    \E r \in responses \cup {NoRow}, p \in GradePoints : grade_essay_response(r, p)

Detail == \E s \in Students, aid \in AttemptIds : attempt_detail(s, aid)

Next == Tick \/ Start \/ Submit \/ Complete \/ Grade \/ Detail

Spec == Init /\ [][Next]_vars

----------------------------------------------------------------------------
(* SpecConc: start_quiz_attempt served to several requests at once.  Each  *)
(* step is one database statement (or the transaction) of the view; the    *)
(* steps of different requests interleave.                                 *)

Finish(p, result, aid) ==
    /\ req' = [req EXCEPT ![p].pc = "done", ![p].result = result,
                          ![p].attempt = aid]
    /\ Reply("start", aid, result)

\* the request arrives: quiz and enrollment are looked up, availability checked
StartBegin(p) ==
    /\ req[p].pc \in {"idle", "done"}
    /\ req[p].issued < MaxRequests
    /\ UNCHANGED <<now, quiz, enrollment, attempts, responses, analytics, calc, ledger>>
    /\ IF enrollment # "active"
       THEN /\ req' = [req EXCEPT ![p] = [Idle EXCEPT !.pc = "done",
                           !.issued = req[p].issued + 1, !.result = "404"]]
            /\ Reply("start", 0, "404")
       ELSE IF ~is_available(quiz, now)
       THEN /\ req' = [req EXCEPT ![p] = [Idle EXCEPT !.pc = "done",
                           !.issued = req[p].issued + 1,
                           !.result = "400_unavailable"]]
            /\ Reply("start", 0, "400_unavailable")
       ELSE /\ req' = [req EXCEPT ![p] = [Idle EXCEPT !.pc = "count",
                           !.issued = req[p].issued + 1]]
            /\ UNCHANGED last

\* existing_attempts = QuizAttempt.objects.filter(quiz, student).count()
StartCount(p) ==
    LET count == Cardinality(AttemptsOf(attempts, req[p].student))
    IN  /\ req[p].pc = "count"
        /\ UNCHANGED <<now, quiz, enrollment, attempts, responses, analytics, calc, ledger>>
        /\ IF count >= quiz.max_attempts
           THEN /\ req' = [req EXCEPT ![p].pc = "done", ![p].count = count,
                                      ![p].result = "400_max_attempts"]
                /\ Reply("start", 0, "400_max_attempts")
           ELSE /\ req' = [req EXCEPT ![p].pc = "find", ![p].count = count]
                /\ UNCHANGED last

\* in_progress_attempt = QuizAttempt.objects.filter(status='in_progress').first()
StartFind(p) ==
    LET ip == InProgressOf(attempts, req[p].student)
    IN  /\ req[p].pc = "find"
        /\ UNCHANGED <<now, quiz, enrollment, attempts, responses, analytics, calc, ledger>>
        /\ IF ip = 0
           THEN req' = [req EXCEPT ![p].pc = "create"] /\ UNCHANGED last
           ELSE IF is_expired(attempts[ip], now)
           THEN /\ req' = [req EXCEPT ![p].pc = "expire", ![p].attempt = ip,
                                      ![p].copy = attempts[ip]]
                /\ UNCHANGED last
           ELSE Finish(p, "200_resumed", ip)

\* in_progress_attempt.status = 'time_expired'; in_progress_attempt.save():
\* save() writes every column of the object the request holds
StartExpire(p) ==
    /\ req[p].pc = "expire"
    /\ attempts' = [attempts EXCEPT ![req[p].attempt] =
                       [req[p].copy EXCEPT !.status = "time_expired"]]
    /\ req' = [req EXCEPT ![p].pc = "create", ![p].attempt = 0,
                          ![p].copy = NoRow]
    /\ UNCHANGED <<now, quiz, enrollment, responses, analytics, last, calc, ledger>>

\* with transaction.atomic(): create(attempt_number=existing_attempts + 1),
\* start_attempt()
StartCreate(p) ==
    /\ req[p].pc = "create"
    /\ UNCHANGED <<now, quiz, enrollment, responses, analytics, calc, ledger>>
    /\ IF UniqueTogetherViolated(attempts, req[p].student, req[p].count + 1)
       THEN UNCHANGED attempts /\ Finish(p, "500_integrity", 0)
       ELSE /\ attempts' = Append(attempts,
                   start_attempt(NewAttempt(req[p].student, req[p].count + 1),
                                 quiz, now))
            /\ Finish(p, "201_created", Len(attempts) + 1)

Begin == \E p \in Procs : StartBegin(p)
Count == \E p \in Procs : StartCount(p)
Find == \E p \in Procs : StartFind(p)
Expire == \E p \in Procs : StartExpire(p)
Create == \E p \in Procs : StartCreate(p)

NextConc == Tick \/ Begin \/ Count \/ Find \/ Expire \/ Create

SpecConc == Init /\ [][NextConc]_vars

----------------------------------------------------------------------------
(* SpecScore: calculate_score's arithmetic on points drawn from bounded    *)
(* sets: total is the sum of question.points over the responses, earned    *)
(* the part of it that calculate_score counts.                             *)

InitScore ==
    /\ now = 0
    /\ quiz \in {qz \in QuizRows :
                    qz.is_active /\ qz.max_attempts = 1 /\ qz.time_limit_minutes = 0}
    /\ enrollment = "active"
    /\ attempts = <<>>
    /\ responses = {}
    /\ analytics = NoRow
    /\ last = NoRequest
    /\ req = [p \in Procs |-> Idle]
    /\ calc \in {c \in [earned : 0 .. MaxTotal, total : 0 .. MaxTotal,
                        passing_score : 0 .. 100, done : {FALSE},
                        score_percentage : {FZero}, passed : {FALSE}] :
                    c.earned <= c.total}
    /\ ledger = NoLedger

Score ==
    /\ ~calc.done
    /\ LET f == ScoreFields(calc.earned, calc.total, calc.passing_score)
       IN  calc' = [calc EXCEPT !.done = TRUE,
                                !.score_percentage = f.score_percentage,
                                !.passed = f.passed]
    /\ UNCHANGED <<now, quiz, enrollment, attempts, responses, analytics, last, req, ledger>>

SpecScore == InitScore /\ [][Score]_vars

----------------------------------------------------------------------------
(* SpecSubmit: submit_question_response served to several requests at      *)
(* once on one in_progress attempt without time limit.  get_or_create is   *)
(* a SELECT, then an INSERT that the unique constraint may refuse, after   *)
(* which it repeats the SELECT; the steps of different requests interleave.*)

ConcInputs == {<<"q1", TextRight>>, <<"q1", TextWrong>>, <<"q2", TextEssay>>}

InitSubmit ==
    /\ now = 0
    /\ quiz \in {qz \in QuizRows :
                    qz.is_active /\ qz.max_attempts = 1 /\ qz.time_limit_minutes = 0}
    /\ enrollment = "active"
    /\ attempts = <<start_attempt(NewAttempt("s1", 1), quiz, now)>>
    /\ responses = {}
    /\ analytics = NoRow
    /\ last = NoRequest
    /\ req = [p \in Procs |-> Idle]
    /\ calc = NoCalc
    /\ ledger = NoLedger

\* the request arrives: the attempt and the question are looked up
SubmitBegin(p) ==
    /\ req[p].pc \in {"idle", "done"}
    /\ req[p].issued < MaxRequests
    /\ UNCHANGED <<now, quiz, enrollment, attempts, responses, analytics, last, calc, ledger>>
    /\ \E in \in ConcInputs :
          /\ in[1] \in quiz.questions
          /\ attempts[1].status \in SubmittableStatuses
          /\ ~is_expired(attempts[1], now)
          /\ req' = [req EXCEPT ![p] = [Idle EXCEPT !.pc = "get",
                          !.issued = req[p].issued + 1, !.attempt = 1,
                          !.question = in[1], !.payload = in[2]]]

\* get_or_create: self.get(attempt=attempt, question=question)
SubmitGet(p) ==
    LET existing == {r \in responses : r.attempt = req[p].attempt
                                         /\ r.question = req[p].question}
    IN  /\ req[p].pc = "get"
        /\ UNCHANGED <<now, quiz, enrollment, attempts, responses, analytics, last, calc, ledger>>
        /\ IF existing = {}
           THEN req' = [req EXCEPT ![p].pc = "insert"]
           ELSE req' = [req EXCEPT ![p].pc = "update",
                                   ![p].copy = CHOOSE r \in existing : TRUE]

\* get_or_create: self.create(**params); on IntegrityError the row is read
\* again and returned with created = False
SubmitInsert(p) ==
    LET aid == req[p].attempt
        q == req[p].question
        existing == {r \in responses : r.attempt = aid /\ r.question = q}
    IN  /\ req[p].pc = "insert"
        /\ UNCHANGED <<now, quiz, enrollment, attempts, analytics, calc, ledger>>
        /\ IF ResponseExists(responses, aid, q)
           THEN /\ req' = [req EXCEPT ![p].pc = "update", ![p].raced = TRUE,
                                      ![p].copy = CHOOSE r \in existing : TRUE]
                /\ UNCHANGED <<responses, last>>
           ELSE /\ responses' =
                      responses \cup {CreatedResponse(aid, q, req[p].payload)}
                /\ req' = [req EXCEPT ![p].pc = "done",
                                      ![p].result = "200_created"]
                /\ ReplySubmit(aid, "200_created", q, req[p].payload)

\* serializer.save() on the instance the request holds: the row with the
\* instance's primary key is rewritten
SubmitUpdate(p) ==
    LET aid == req[p].attempt
        q == req[p].question
        existing == {r \in responses : r.attempt = aid /\ r.question = q}
    IN  /\ req[p].pc = "update"
        /\ UNCHANGED <<now, quiz, enrollment, attempts, analytics, calc, ledger>>
        /\ responses' = (responses \ existing)
                            \cup {UpdatedResponse(req[p].copy, req[p].payload)}
        /\ req' = [req EXCEPT ![p].pc = "done", ![p].result = "200_updated",
                              ![p].copy = NoRow]
        /\ ReplySubmit(aid, "200_updated", q, req[p].payload)

SBegin == \E p \in Procs : SubmitBegin(p)
SGet == \E p \in Procs : SubmitGet(p)
SInsert == \E p \in Procs : SubmitInsert(p)
SUpdate == \E p \in Procs : SubmitUpdate(p)

NextSubmit == SBegin \/ SGet \/ SInsert \/ SUpdate

SpecSubmit == InitSubmit /\ [][NextSubmit]_vars

----------------------------------------------------------------------------
(* SpecAnalytics: attempts on an untimed quiz are started and completed    *)
(* while the teacher reads the quiz analytics.  The quiz has no time       *)
(* limit, so the clock only dates the rows; one tick is one day here.      *)

StaleDays == 1    \* (timezone.now() - analytics.last_calculated).days > 1

\* GET QuizAnalyticsView by the course's teacher, with ?refresh=true or not
get_analytics(refresh) ==
    LET created == analytics = NoRow
        row == IF created THEN NewAnalytics(now) ELSE analytics
    IN  /\ UNCHANGED <<now, quiz, enrollment, attempts, responses, req, calc, ledger>>
        /\ IF refresh \/ created \/ now - row.last_calculated > StaleDays
           THEN /\ analytics' = calculate_analytics(row, attempts, responses, quiz, now)
                /\ Reply("analytics", 0, "200_recalculated")
           ELSE /\ analytics' = row
                /\ Reply("analytics", 0, "200_stored")

GetAnalytics == \E refresh \in BOOLEAN : get_analytics(refresh)

InitAnalytics ==
    /\ InitDb
    /\ quiz.is_active /\ quiz.time_limit_minutes = 0
    /\ enrollment = "active"
    /\ req = [p \in Procs |-> Idle]
    /\ calc = NoCalc
    /\ ledger = NoLedger

NextAnalytics == Tick \/ Start \/ Submit \/ Complete \/ GetAnalytics

SpecAnalytics == InitAnalytics /\ [][NextAnalytics]_vars

----------------------------------------------------------------------------
(* SpecEval: the evaluation of selected answers.  An attempt on a quiz     *)
(* holding the multiple_choice and the true_false question is in progress; *)
(* the learner submits responses whose selected_answer_ids are drawn from  *)
(* the answer rows and "X", an id that names no answer row.                *)

Selecting(ids) == Payload({"selected_answer_ids"}, "", ids, FALSE)

\* a payload whose 'question' names question row q
Naming(q) == [Empty EXCEPT !.keys = {"question"}, !.question = q]

EvalInputs ==
    {<<"q3", Empty>>, <<"q4", Empty>>, <<"q3", Naming("q1")>>,
     <<"q4", Naming("q1")>>, <<"q4", Naming("q3")>>}
        \cup {<<"q3", Selecting(ids)>> : ids \in SUBSET {"A", "B", "C", "T", "X"}}
        \cup {<<"q4", Selecting(ids)>> : ids \in SUBSET {"T", "F", "X"}}

EvalQuiz ==
    [is_active |-> TRUE, max_attempts |-> 1, passing_score |-> 60,
     time_limit_minutes |-> 0, available_from |-> NoTime,
     available_until |-> NoTime, questions |-> {"q3", "q4"},
     flags |-> DefaultFlags]

InitEval ==
    /\ now = 0
    /\ quiz = EvalQuiz
    /\ enrollment = "active"
    /\ attempts = <<start_attempt(NewAttempt("s1", 1), quiz, now)>>
    /\ responses = {}
    /\ analytics = NoRow
    /\ last = NoRequest
    /\ req = [p \in Procs |-> Idle]
    /\ calc = NoCalc
    /\ ledger = NoLedger

Evaluate ==
    \E s \in Students, in \in EvalInputs :
        submit_question_response(s, 1, in[1], in[2])

SpecEval == InitEval /\ [][Evaluate]_vars

----------------------------------------------------------------------------
(* SpecQuiz: the teacher edits the questions of a quiz nobody attempts.    *)
(* In this specification the quiz row carries its total_points column and  *)
(* quiz.points[q] is the points column of question row q of the quiz.      *)

MaxPoints == 2    \* question points are drawn from 1..MaxPoints

\* Quiz.calculate_total_points
calculate_total_points(qz) ==
    [qz EXCEPT !.total_points = SumOver(qz.questions, qz.points)]

\* Question.save: the row is written, then the quiz total is recomputed
SaveQuestion(qz, q, p) ==
    calculate_total_points(
        [qz EXCEPT !.questions = @ \cup {q},
                   !.points = [x \in qz.questions \cup {q} |->
                                  IF x = q THEN p ELSE qz.points[x]]])

\* Model.delete (Question defines no delete and no signal handler)
DeletedQuestion(qz, q) ==
    [qz EXCEPT !.questions = @ \ {q},
               !.points = [x \in qz.questions \ {q} |-> qz.points[x]]]

InitQuiz ==
    /\ now = 0
    /\ quiz = [is_active |-> TRUE, max_attempts |-> 1, passing_score |-> 60,
               time_limit_minutes |-> 0, available_from |-> NoTime,
               available_until |-> NoTime, questions |-> {},
               flags |-> DefaultFlags, points |-> << >>, total_points |-> 0]
    /\ enrollment = "active"
    /\ attempts = << >>
    /\ responses = {}
    /\ analytics = NoRow
    /\ last = NoRequest
    /\ req = [p \in Procs |-> Idle]
    /\ calc = NoCalc
    /\ ledger = NoLedger

\* POST QuestionListCreateView
CreateQuestion ==
    /\ \E q \in QuestionIds \ quiz.questions, p \in 1 .. MaxPoints :
          quiz' = SaveQuestion(quiz, q, p)
    /\ last' = [NoRequest EXCEPT !.op = "create_question", !.result = "201"]
    /\ UNCHANGED <<now, enrollment, attempts, responses, analytics, req, calc, ledger>>

\* PUT/PATCH QuestionDetailView
UpdateQuestion ==
    /\ \E q \in quiz.questions, p \in 1 .. MaxPoints :
          quiz' = SaveQuestion(quiz, q, p)
    /\ last' = [NoRequest EXCEPT !.op = "update_question", !.result = "200"]
    /\ UNCHANGED <<now, enrollment, attempts, responses, analytics, req, calc, ledger>>

\* DELETE QuestionDetailView
DeleteQuestion ==
    /\ \E q \in quiz.questions : quiz' = DeletedQuestion(quiz, q)
    /\ last' = [NoRequest EXCEPT !.op = "delete_question", !.result = "204"]
    /\ UNCHANGED <<now, enrollment, attempts, responses, analytics, req, calc, ledger>>

NextQuiz == CreateQuestion \/ UpdateQuestion \/ DeleteQuestion

SpecQuiz == InitQuiz /\ [][NextQuiz]_vars

----------------------------------------------------------------------------
(* SpecPayout: a teacher's bank account, earnings row and payout requests. *)
(* Money is counted in cents.                                              *)

MinPayout == 1000     \* Decimal('10.00')

\* the pending balances the teacher's sales have left in the earnings row
Balances == {0, 1000, 2500}

\* request.data['amount'] of a payout request
PayoutAmounts == {999, 1000, 1500, 2501}

EarningsRow(balance) ==
    [exists |-> TRUE, total_net_earnings |-> balance, total_paid_out |-> 0,
     pending_balance |-> balance]

InitPayout ==
    /\ now = 0
    /\ quiz \in {qz \in QuizRows :
                    qz.is_active /\ qz.max_attempts = 1 /\ qz.time_limit_minutes = 0}
    /\ enrollment = "active"
    /\ attempts = << >>
    /\ responses = {}
    /\ analytics = NoRow
    /\ last = NoRequest
    /\ req = [p \in Procs |-> Idle]
    /\ calc = NoCalc
    /\ ledger \in [bank_account : {"none"},
                    earnings : {NoRow} \cup {EarningsRow(b) : b \in Balances},
                    payout_requests : {<< >>}]

\* the reply of a payout view, with the amount the request carried
ReplyPayout(op, result, amount) ==
    last' = [NoRequest EXCEPT !.op = op, !.result = result, !.amount = amount]

\* an amount check that accepts every amount
AcceptAnyAmount(value, earnings) == "valid"

\* PayoutRequestCreateSerializer.validate_amount
validate_amount(value, earnings) ==
    IF value < MinPayout THEN "400_minimum"
    ELSE IF ~earnings.exists THEN "400_no_earnings"
    ELSE IF value > earnings.pending_balance THEN "400_insufficient"
    ELSE "valid"

\* PayoutRequest.objects.create(amount, teacher, bank_account)
NewPayoutRequest(amount) == [amount |-> amount, status |-> "requested"]

\* POST PayoutRequestListCreateView: the serializer is validated, then
\* perform_create runs; CreateModelMixin.create ignores what perform_create
\* returns and replies 201
request_payout(amount) ==
    LET checked == validate_amount(amount, ledger.earnings)
    IN  /\ UNCHANGED <<now, quiz, enrollment, attempts, responses, analytics, req, calc>>
        /\ IF checked # "valid"
           THEN UNCHANGED ledger /\ ReplyPayout("payout", checked, amount)
           ELSE IF ledger.bank_account # "verified"
           THEN UNCHANGED ledger /\ ReplyPayout("payout", "201_nothing", amount)
           ELSE /\ ledger' =
                      [ledger EXCEPT
                          !.payout_requests = Append(@, NewPayoutRequest(amount)),
                          !.earnings.pending_balance = @ - amount]
                /\ ReplyPayout("payout", "201_created", amount)

\* POST TeacherBankAccountCreateView, PUT TeacherBankAccountView: the account
\* is stored unverified
SaveBankAccount ==
    /\ ledger' = [ledger EXCEPT !.bank_account = "unverified"]
    /\ ReplyPayout("bank_account", "200", 0)
    /\ UNCHANGED <<now, quiz, enrollment, attempts, responses, analytics, req, calc>>

\* POST verify_bank_account by an admin
VerifyBankAccount ==
    /\ UNCHANGED <<now, quiz, enrollment, attempts, responses, analytics, req, calc>>
    /\ IF ledger.bank_account = "none"
       THEN UNCHANGED ledger /\ ReplyPayout("verify", "404", 0)
       ELSE /\ ledger' = [ledger EXCEPT !.bank_account = "verified"]
            /\ ReplyPayout("verify", "200", 0)

RequestPayout == \E amount \in PayoutAmounts : request_payout(amount)

NextPayout == SaveBankAccount \/ VerifyBankAccount \/ RequestPayout

SpecPayout == InitPayout /\ [][NextPayout]_vars

----------------------------------------------------------------------------
(* SpecAuth: the learner views called by every kind of caller: nobody      *)
(* (no credentials), the course's teacher t1, the student s1, and s2, a    *)
(* learner who holds no enrollment in the course and owns no attempt.  The  *)
(* quiz has no time limit.                                                 *)

Users == {"anon", "t1", "s1", "s2"}

\* User.role
Role ==
    [u \in Users |->
        CASE u = "t1" -> "teacher"
          [] u \in {"s1", "s2"} -> "learner"
          [] OTHER -> "none"]

is_authenticated(u) == u # "anon"

\* permissions.IsLearner.has_permission
IsLearner(u) == is_authenticated(u) /\ Role[u] = "learner"

\* APIView.permission_denied: 401 without credentials, 403 with them; the
\* view function is not entered
permission_denied(op, u, aid) ==
    /\ UNCHANGED <<now, quiz, enrollment, attempts, responses, analytics, req, calc, ledger>>
    /\ Reply(op, aid, IF is_authenticated(u) THEN "403" ELSE "401")

\* @permission_classes([IsAuthenticated, IsLearner]) on the three views
StartAs(u) ==
    IF IsLearner(u) THEN start_quiz_attempt(u) ELSE permission_denied("start", u, 0)

SubmitAs(u, aid, q, payload) ==
    IF IsLearner(u) THEN submit_question_response(u, aid, q, payload)
    ELSE permission_denied("submit", u, aid)

CompleteAs(u, aid) ==
    IF IsLearner(u) THEN complete_quiz_attempt(u, aid)
    ELSE permission_denied("complete", u, aid)

\* permissions.IsTeacher.has_permission
IsTeacher(u) == is_authenticated(u) /\ Role[u] = "teacher"

\* @permission_classes([IsAuthenticated, IsTeacher]) on grade_essay_response;
\* t1 is the instructor of the quiz's course
GradeAs(u, r, p) ==
    IF IsTeacher(u) THEN grade_essay_response(r, p)
    ELSE permission_denied("grade", u, 0)

AuthStart == \E u \in Users : StartAs(u)

AuthGrade ==
    \E u \in Users, r \in responses \cup {NoRow}, p \in GradePoints : GradeAs(u, r, p)

AuthSubmit ==
    \E u \in Users, aid \in AttemptIds, in \in SubmitInputs :
        SubmitAs(u, aid, in[1], in[2])

AuthComplete == \E u \in Users, aid \in AttemptIds : CompleteAs(u, aid)

InitAuth ==
    /\ InitDb
    /\ quiz.is_active /\ quiz.max_attempts = 1 /\ quiz.time_limit_minutes = 0
    /\ enrollment = "active"
    /\ req = [p \in Procs |-> Idle]
    /\ calc = NoCalc
    /\ ledger = NoLedger

NextAuth == AuthStart \/ AuthSubmit \/ AuthComplete \/ AuthGrade

SpecAuth == InitAuth /\ [][NextAuth]_vars

----------------------------------------------------------------------------
(* SpecRace: two start requests run statement by statement, as in         *)
(* SpecConc, while the student's other requests                            *)
(* (submit_question_response and complete_quiz_attempt, each served as a   *)
(* whole) come in between.  The student has not attempted the quiz, or has *)
(* started a first attempt.                                                *)

\* each connection issues one start request that runs statement by statement
RaceBegin == \E p \in Procs : req[p].issued = 0 /\ StartBegin(p)

\* the student answers the short_answer question
RaceSubmit ==
    \E s \in Students, aid \in AttemptIds :
        submit_question_response(s, aid, "q1", TextRight)

InitRace ==
    /\ now = 0
    /\ quiz \in {qz \in QuizRows : qz.is_active}
    /\ enrollment = "active"
    /\ attempts \in {<< >>, <<start_attempt(NewAttempt("s1", 1), quiz, now)>>}
    /\ responses = {}
    /\ analytics = NoRow
    /\ last = NoRequest
    /\ req = [p \in Procs |-> Idle]
    /\ calc = NoCalc
    /\ ledger = NoLedger

NextRace ==
    Tick \/ RaceBegin \/ Count \/ Find \/ Expire \/ Create \/ RaceSubmit \/ Complete

SpecRace == InitRace /\ [][NextRace]_vars

----------------------------------------------------------------------------
(* SpecStats: calculate_analytics applied to attempt and response rows     *)
(* drawn from bounded sets.  The quiz allows MaxAttemptsBound attempts and *)
(* holds the short_answer question, so a completed attempt passed iff its  *)
(* response is correct.  The stored analytics row is the one inserted by   *)
(* get_or_create or one calculated when a first attempt had been passed.   *)

\* 100.0
Hundred == FMulInt(FDivInt(1, 1), 100)

\* attempt row n of the student: in progress or expired, or completed in
\* secs seconds with the answer to q1 right (passed) or not
StatRow(n, st, p, secs) ==
    IF st = "completed"
    THEN [NewAttempt("s1", n) EXCEPT
             !.status = st, !.started_at = 0, !.completed_at = secs,
             !.time_spent_seconds = secs, !.passed = p,
             !.score_points = IF p THEN 1 ELSE 0,
             !.score_percentage = IF p THEN Hundred ELSE FZero]
    ELSE [NewAttempt("s1", n) EXCEPT !.status = st, !.started_at = 0]

StatRows(n) ==
    {StatRow(n, st, FALSE, 0) : st \in {"in_progress", "time_expired"}}
        \cup {StatRow(n, "completed", p, secs) : p \in BOOLEAN, secs \in {0, 1}}

\* the response of attempt row aid to q1
StatResponse(rows, aid) ==
    evaluate_response(
        [CreatedResponse(aid, "q1", IF rows[aid].passed THEN TextRight ELSE TextWrong)
            EXCEPT !.is_correct = FALSE])

\* the analytics row calculated when attempt 1 had been completed and passed
StoredAnalytics ==
    LET rows == <<StatRow(1, "completed", TRUE, 1)>>
    IN  calculate_analytics(NewAnalytics(0), rows, {StatResponse(rows, 1)},
                            [questions |-> {"q1"}], 0)

InitStats ==
    /\ now = 1
    /\ quiz \in {qz \in QuizRows : qz.is_active /\ qz.max_attempts = MaxAttemptsBound}
    /\ enrollment = "active"
    /\ \E len \in 0 .. MaxAttemptsBound :
          attempts \in {rows \in [1 .. len -> UNION {StatRows(n) : n \in 1 .. len}] :
                           \A n \in 1 .. len : rows[n] \in StatRows(n)}
    /\ responses \in SUBSET {StatResponse(attempts, aid) : aid \in 1 .. Len(attempts)}
    /\ analytics \in {NewAnalytics(0), StoredAnalytics}
    /\ last = NoRequest
    /\ req = [p \in Procs |-> Idle]
    /\ calc = NoCalc
    /\ ledger = NoLedger

\* analytics.calculate_analytics() on the stored row
Calculate ==
    /\ last.op = "none"
    /\ analytics' = calculate_analytics(analytics, attempts, responses, quiz, now)
    /\ Reply("calculate", 0, "saved")
    /\ UNCHANGED <<now, quiz, enrollment, attempts, responses, req, calc, ledger>>

SpecStats == InitStats /\ [][Calculate]_vars

----------------------------------------------------------------------------
(* SpecEdit: the teacher edits the quiz row (its flags and its time limit) *)
(* while the student attempts the quiz and essays are graded.  The quiz    *)
(* allows one attempt.                                                     *)

\* the flags a PUT/PATCH of the quiz carries
EditedFlags == {DefaultFlags, [DefaultFlags EXCEPT !.show_correct_answers = FALSE]}

\* PUT/PATCH QuizDetailView with QuizCreateSerializer: the columns of the
\* quiz row are written, no other row is
update_quiz(f, limit) ==
    /\ quiz' = [quiz EXCEPT !.flags = f, !.time_limit_minutes = limit]
    /\ Reply("update_quiz", 0, "200")
    /\ UNCHANGED <<now, enrollment, attempts, responses, analytics, req, calc, ledger>>

EditQuiz == \E f \in EditedFlags, limit \in TimeLimits : update_quiz(f, limit)

InitEdit ==
    /\ InitDb
    /\ quiz.is_active /\ quiz.max_attempts = 1
    /\ enrollment = "active"
    /\ req = [p \in Procs |-> Idle]
    /\ calc = NoCalc
    /\ ledger = NoLedger

NextEdit == Tick \/ EditQuiz \/ Start \/ Submit \/ Complete \/ Grade

SpecEdit == InitEdit /\ [][NextEdit]_vars

----------------------------------------------------------------------------
(* SpecFinish: submit_question_response runs statement by statement, as in *)
(* SpecSubmit, while the student's complete_quiz_attempt request, whose     *)
(* writes are one transaction, is served in between.                       *)

NextFinish == SBegin \/ SGet \/ SInsert \/ SUpdate \/ Complete

SpecFinish == InitSubmit /\ [][NextFinish]_vars

----------------------------------------------------------------------------
(* SpecLedger: the teacher's earnings row under course sales, payout       *)
(* requests, the teacher's cancellations and the admin's status updates.   *)
(* Stored amounts are cents; an amount not yet saved is counted in tenths  *)
(* of a cent.                                                              *)

MaxRevenue == 3000    \* sales are recorded while total_gross_revenue is below
MaxPayouts == 1       \* payout requests created
MaxBalance == 3000    \* cancellations are served while pending_balance is below
MaxPaidOut == 2000    \* the admin's updates are served while total_paid_out is below

CommissionRate == 30  \* TeacherEarnings.commission_rate, Decimal('30.00')

\* the gross amounts of the sales
SaleAmounts == {1995, 2000}

\* a DecimalField(decimal_places=2) column as saved: the value x10, counted
\* in tenths of a cent, quantized to cents under the decimal context's
\* rounding, ROUND_HALF_EVEN
Quantize(x10) ==
    LET q == x10 \div 10
        r == x10 % 10
    IN  IF r > 5 \/ (r = 5 /\ q % 2 = 1) THEN q + 1 ELSE q

\* the row TeacherEarnings.objects.get_or_create(teacher) inserts
NewEarnings ==
    [exists |-> TRUE, total_gross_revenue |-> 0, total_net_earnings |-> 0,
     total_paid_out |-> 0, pending_balance |-> 0]

\* TeacherEarnings.calculate_net_from_gross, in tenths of a cent
calculate_net_from_gross(gross) == 10 * gross - (gross * CommissionRate) \div 10

\* TeacherEarnings.add_sale: the row as saved
add_sale(e, gross) ==
    LET net10 == calculate_net_from_gross(gross)
    IN  [e EXCEPT !.total_gross_revenue = @ + gross,
                  !.total_net_earnings = Quantize(10 * @ + net10),
                  !.pending_balance = Quantize(10 * @ + net10)]

\* a sale of the teacher's course is recorded: get_or_create, add_sale
record_sale(gross) ==
    LET e == IF ledger.earnings.exists THEN ledger.earnings ELSE NewEarnings
    IN  /\ e.total_gross_revenue < MaxRevenue
        /\ ledger' = [ledger EXCEPT !.earnings = add_sale(e, gross)]
        /\ ReplyPayout("sale", "saved", gross)
        /\ UNCHANGED <<now, quiz, enrollment, attempts, responses, analytics, req, calc>>

\* PayoutRequest.can_be_cancelled
can_be_cancelled(pr) == pr.status \in {"requested", "processing"}

\* PUT PayoutRequestDetailView with status 'cancelled' by the teacher, on
\* payout request i
cancel_payout(i) ==
    LET pr == ledger.payout_requests[i]
    IN  /\ ledger.earnings.pending_balance < MaxBalance
        /\ UNCHANGED <<now, quiz, enrollment, attempts, responses, analytics, req, calc>>
        /\ IF ~can_be_cancelled(pr)
           THEN UNCHANGED ledger /\ ReplyPayout("cancel", "400", pr.amount)
           ELSE /\ ledger' =
                      [ledger EXCEPT
                          !.earnings.pending_balance = @ + pr.amount,
                          !.payout_requests[i].status = "cancelled"]
                /\ ReplyPayout("cancel", "200", pr.amount)

\* PATCH AdminPayoutRequestDetailView with a status, on payout request i:
\* AdminPayoutRequestSerializer.update
admin_update(i, st) ==
    LET pr == ledger.payout_requests[i]
    IN  /\ ledger.earnings.total_paid_out < MaxPaidOut
        /\ UNCHANGED <<now, quiz, enrollment, attempts, responses, analytics, req, calc>>
        /\ ledger' =
              [ledger EXCEPT
                  !.earnings =
                      IF st # pr.status /\ st = "paid"
                      THEN [@ EXCEPT !.pending_balance = @ - pr.amount,
                                     !.total_paid_out = @ + pr.amount]
                      ELSE @,
                  !.payout_requests[i].status = st]
        /\ ReplyPayout("admin_" \o st, "200", pr.amount)

RecordSale == \E gross \in SaleAmounts : record_sale(gross)

LedgerRequest == Len(ledger.payout_requests) < MaxPayouts /\ RequestPayout

CancelPayout == \E i \in 1 .. Len(ledger.payout_requests) : cancel_payout(i)

AdminUpdate ==
    \E i \in 1 .. Len(ledger.payout_requests),
       st \in {"processing", "paid", "failed", "cancelled"} : admin_update(i, st)

InitLedger ==
    /\ now = 0
    /\ quiz \in {qz \in QuizRows :
                    qz.is_active /\ qz.max_attempts = 1 /\ qz.time_limit_minutes = 0}
    /\ enrollment = "active"
    /\ attempts = << >>
    /\ responses = {}
    /\ analytics = NoRow
    /\ last = NoRequest
    /\ req = [p \in Procs |-> Idle]
    /\ calc = NoCalc
    /\ ledger = NoLedger

NextLedger ==
    \/ SaveBankAccount \/ VerifyBankAccount \/ RecordSale
    \/ LedgerRequest \/ CancelPayout \/ AdminUpdate

SpecLedger == InitLedger /\ [][NextLedger]_vars

----------------------------------------------------------------------------
(* SpecPay: one payment of student s1 for the course, its payment intent   *)
(* at the gateway, and confirm_payment called any number of times.  The    *)
(* ledger carries the payment row and the PayoutTransaction rows too.      *)

\* course.price, the payment's amount
Prices == {1000, 1995, 1999, 2000}

\* the Payment row create_payment_intent leaves, with the status of its
\* payment intent at the gateway
NewPayment(amount, intent) ==
    [amount |-> amount, status |-> "processing", completed_at |-> NoTime,
     refunded_amount |-> 0, refunded_at |-> NoTime, intent |-> intent]

\* the gateway moves the payment intent on
GatewayStep ==
    /\ \/ ledger.payment.intent = "requires_action"
          /\ ledger' = [ledger EXCEPT !.payment.intent = "requires_payment_method"]
       \/ ledger.payment.intent \in {"requires_action", "requires_payment_method"}
          /\ ledger' = [ledger EXCEPT !.payment.intent = "succeeded"]
    /\ ReplyPayout("gateway", ledger'.payment.intent, 0)
    /\ UNCHANGED <<now, quiz, enrollment, attempts, responses, analytics, req, calc>>

\* the PayoutTransaction row as saved: its DecimalFields are quantized
NewTransaction(gross, net10) ==
    [gross_amount |-> gross, commission_amount |-> Quantize(10 * gross - net10),
     net_amount |-> Quantize(net10)]

\* PayoutTransaction.payment is a OneToOneField: the insert of a second row
\* for the payment raises IntegrityError
PaymentTaken(rows) == Len(rows) > 0

\* StripePaymentService.confirm_payment, behind the confirm_payment view
confirm_payment ==
    LET pay == ledger.payment
        e == IF ledger.earnings.exists THEN ledger.earnings ELSE NewEarnings
        completed == [pay EXCEPT !.status = "completed", !.completed_at = now]
    IN  /\ UNCHANGED <<now, quiz, attempts, responses, analytics, req, calc>>
        /\ IF pay.intent = "succeeded"
           THEN /\ e.total_gross_revenue < MaxRevenue
                /\ enrollment' = "active"
                /\ IF PaymentTaken(ledger.transactions)
                   THEN /\ ledger' = [ledger EXCEPT !.payment = completed,
                                                    !.earnings = add_sale(e, pay.amount)]
                        /\ ReplyPayout("confirm", "400", pay.amount)
                   ELSE /\ ledger' =
                              [ledger EXCEPT
                                  !.payment = completed,
                                  !.earnings = add_sale(e, pay.amount),
                                  !.transactions =
                                      Append(@, NewTransaction(pay.amount,
                                                    calculate_net_from_gross(pay.amount)))]
                        /\ ReplyPayout("confirm", "200", pay.amount)
           ELSE IF pay.intent = "requires_action"
           THEN /\ UNCHANGED <<ledger, enrollment>>
                /\ ReplyPayout("confirm", "400_requires_action", pay.amount)
           ELSE /\ ledger' = [ledger EXCEPT !.payment.status = "failed"]
                /\ UNCHANGED enrollment
                /\ ReplyPayout("confirm", "400_failed", pay.amount)

InitPay ==
    /\ now = 0
    /\ quiz \in {qz \in QuizRows :
                    qz.is_active /\ qz.max_attempts = 1 /\ qz.time_limit_minutes = 0}
    /\ enrollment = "none"
    /\ attempts = << >>
    /\ responses = {}
    /\ analytics = NoRow
    /\ last = NoRequest
    /\ req = [p \in Procs |-> Idle]
    /\ calc = NoCalc
    /\ ledger \in [bank_account : {"none"}, earnings : {NoRow}, payout_requests : {<< >>},
                    payment : {NewPayment(a, i) :
                                  a \in Prices,
                                  i \in {"requires_action", "requires_payment_method"}},
                    transactions : {<< >>}]

NextPay == Tick \/ GatewayStep \/ confirm_payment

SpecPay == InitPay /\ [][NextPay]_vars

----------------------------------------------------------------------------
(* SpecRefund: refund requests of student s1 on the completed payment.     *)

\* request.data of a refund request: 'amount' is optional
RefundData ==
    {[has_amount |-> FALSE, amount |-> 0]}
        \cup {[has_amount |-> TRUE, amount |-> a] : a \in {0, 500, 1000, 1999, 2500}}

\* Python's truth value of validated_data.get('amount'): None and
\* Decimal('0') are false
Truthy(data) == data.has_amount /\ data.amount # 0

\* Payment.can_be_refunded
can_be_refunded(pay) == pay.status = "completed" /\ pay.refunded_amount < pay.amount

\* `amount or (payment.amount - payment.refunded_amount)`
refund_amount(pay, data) ==
    IF Truthy(data) THEN data.amount ELSE pay.amount - pay.refunded_amount

\* Payment.process_refund with an amount: the row as saved, or the row
\* unchanged where ValueError is raised
process_refund(pay, amount) ==
    IF ~can_be_refunded(pay) \/ amount > pay.amount - pay.refunded_amount
    THEN pay
    ELSE LET total == pay.refunded_amount + amount
         IN  [pay EXCEPT !.refunded_amount = total,
                         !.refunded_at = now,
                         !.status = IF total >= pay.amount THEN "refunded"
                                    ELSE "partially_refunded"]

\* the request_refund view: the lookup of the completed payment, the
\* serializer's validate_amount, create_refund with the gateway's refund
\* accepted (ok) or refused, process_refund, the enrollment dropped
request_refund(data, ok) ==
    LET pay == ledger.payment
        amount == refund_amount(pay, data)
    IN  /\ UNCHANGED <<now, quiz, attempts, responses, analytics, req, calc>>
        /\ IF pay.status # "completed"
           THEN UNCHANGED <<ledger, enrollment>> /\ ReplyPayout("refund", "404", data.amount)
           ELSE IF Truthy(data) /\ data.amount > pay.amount - pay.refunded_amount
           THEN UNCHANGED <<ledger, enrollment>> /\ ReplyPayout("refund", "400_invalid", data.amount)
           ELSE IF ~can_be_refunded(pay) \/ ~ok
                   \/ amount > pay.amount - pay.refunded_amount
           THEN UNCHANGED <<ledger, enrollment>> /\ ReplyPayout("refund", "400", data.amount)
           ELSE /\ ledger' = [ledger EXCEPT !.payment = process_refund(pay, amount)]
                /\ enrollment' = IF ledger'.payment.status = "refunded"
                                 THEN "dropped" ELSE enrollment
                /\ ReplyPayout("refund", "200", data.amount)

RequestRefund == \E data \in RefundData, ok \in BOOLEAN : request_refund(data, ok)

InitRefund ==
    /\ now = 0
    /\ quiz \in {qz \in QuizRows :
                    qz.is_active /\ qz.max_attempts = 1 /\ qz.time_limit_minutes = 0}
    /\ enrollment = "active"
    /\ attempts = << >>
    /\ responses = {}
    /\ analytics = NoRow
    /\ last = NoRequest
    /\ req = [p \in Procs |-> Idle]
    /\ calc = NoCalc
    /\ ledger \in {[bank_account |-> "none",
                     earnings |-> add_sale(NewEarnings, a),
                     payout_requests |-> << >>,
                     payment |-> [NewPayment(a, "succeeded") EXCEPT
                                     !.status = "completed", !.completed_at = 0],
                     transactions |->
                         <<NewTransaction(a, calculate_net_from_gross(a))>>] :
                       a \in Prices}

NextRefund == Tick \/ RequestRefund

SpecRefund == InitRefund /\ [][NextRefund]_vars

----------------------------------------------------------------------------
(* Properties *)

\* a request of kind op is served in this step (every view sets last; the
\* clock's step leaves it alone)
Served(op) == last'.op = op /\ now' = now

Rows == 1 .. Len(attempts)

PointsEarned(rs) == SumOver(rs, [r \in rs |-> r.points_earned])

CorrectFor(r) ==
    /\ r.is_correct = EvaluatedCorrect(r)
    /\ r.points_earned = IF r.is_correct THEN Question[r.question].points ELSE 0

\* C1: after every successful submit_response, first submission or
\* resubmission, the stored Response's is_correct and points_earned are the
\* evaluator's result for the stored payload.
C1_SubmitStoresEvaluation ==
    [][ (Served("submit") /\ last'.result \in {"200_created", "200_updated"})
            => \A r \in responses' \ responses : CorrectFor(r) ]_vars

\* C2: start by an actively enrolled student on an available quiz, while the
\* pair's in_progress attempt has not expired, returns that attempt and
\* changes no attempt row, whatever max_attempts and the attempt count are.
C2_StartResumes ==
    [][ \A s \in Students :
            LET ip == InProgressOf(attempts, s)
            IN  ( /\ Served("start")
                  /\ enrollment = "active" /\ is_available(quiz, now)
                  /\ ip # 0
                  /\ ~(attempts[ip].expires_at # NoTime /\ now > attempts[ip].expires_at) )
                => ( /\ last'.result = "200_resumed"
                     /\ last'.attempt = ip
                     /\ attempts' = attempts ) ]_vars

\* C3: under any interleaving of start requests the attempt rows of a
\* (quiz, student) pair never exceed quiz.max_attempts, and a start that
\* counts max_attempts rows or more fails with the max-attempts error and
\* goes no further (it creates no row).
C3_AttemptLimit ==
    /\ \A s \in Students : Cardinality(AttemptsOf(attempts, s)) <= quiz.max_attempts
    /\ \A p \in Procs :
          /\ req[p].pc \in {"find", "expire", "create"}
                => req[p].count < quiz.max_attempts
          /\ (req[p].pc = "done" /\ req[p].result \in {"201_created", "200_resumed", "500_integrity"})
                => req[p].count < quiz.max_attempts
          /\ (req[p].pc = "done" /\ req[p].count >= quiz.max_attempts)
                => (req[p].result = "400_max_attempts" /\ req[p].attempt = 0)

\* a request lost the race on the unique constraint, a later one was turned
\* away at the limit, and the rows are at the limit
C3_Witness ==
    /\ Len(attempts) = quiz.max_attempts
    /\ \E p, q \in Procs :
          /\ req[p].pc = "done" /\ req[p].result = "500_integrity"
          /\ req[q].pc = "done" /\ req[q].result = "400_max_attempts"

\* C4: two start requests of the same student on a quiz nobody has attempted,
\* interleaved in any order: exactly one row, with attempt_number 1, is
\* created; the other request returns that in_progress attempt or fails on
\* the uniqueness constraint; no two rows share an attempt_number.
C4_StartRace ==
    /\ \A i, j \in Rows :
          (i # j /\ attempts[i].student = attempts[j].student)
              => attempts[i].attempt_number # attempts[j].attempt_number
    /\ \A p, q \in Procs :
          ( /\ p # q /\ now = 0
            /\ enrollment = "active" /\ is_available(quiz, now)
            /\ req[p].pc = "done" /\ req[p].issued = 1
            /\ req[q].pc = "done" /\ req[q].issued = 1
            /\ req[p].result = "201_created" )
          => ( /\ Len(attempts) = 1
               /\ attempts[1].attempt_number = 1
               /\ \/ req[q].result = "200_resumed" /\ req[q].attempt = req[p].attempt
                  \/ req[q].result = "500_integrity" )

\* C5: complete succeeds exactly when the attempt is in_progress or
\* time_expired, and then sets status completed, completed_at and the score
\* fields; on any other attempt it fails and leaves the attempts, the
\* responses and the quiz analytics as they were.
C5_CompleteGuard ==
    [][ Served("complete") =>
            LET aid == last'.attempt
                rs == ResponsesOf(responses, aid)
                correct == {r \in rs : r.is_correct}
            IN  IF aid \in Rows /\ attempts[aid].status \in {"in_progress", "time_expired"}
                THEN /\ last'.result = "200"
                     /\ attempts'[aid].status = "completed"
                     /\ attempts'[aid].completed_at = now
                     /\ attempts'[aid].score_points =
                            SumOver(correct, [r \in correct |-> Question[r.question].points])
                     /\ attempts'[aid].passed =
                            FGeInt(attempts'[aid].score_percentage, quiz.passing_score)
                     /\ \A i \in Rows \ {aid} : attempts'[i] = attempts[i]
                ELSE /\ last'.result = "404"
                     /\ attempts' = attempts
                     /\ responses' = responses
                     /\ analytics' = analytics ]_vars

\* complete was refused on an attempt that is already completed
C5_Witness ==
    /\ last.op = "complete" /\ last.result = "404"
    /\ last.attempt \in Rows
    /\ attempts[last.attempt].status = "completed"
    /\ attempts[last.attempt].score_points > 0

\* C6: every operation on an in_progress attempt whose expires_at has passed
\* (start, submit_response, complete, detail read) forces it to time_expired
\* first; no attempt goes from in_progress straight to completed once its
\* expires_at has passed.
C6_LazyExpiry ==
    [][ \A i \in Rows :
            (attempts[i].status = "in_progress"
                /\ attempts[i].expires_at # NoTime /\ now > attempts[i].expires_at)
            => /\ attempts'[i].status # "completed"
               /\ (last'.attempt = i /\ now' = now
                     /\ last'.op \in {"start", "submit", "complete", "detail"})
                    => attempts'[i].status = "time_expired" ]_vars

\* C7: submit_response on an attempt past its expires_at is rejected, turns
\* the attempt time_expired and touches no Response; no later submit touches
\* the Responses of a time_expired attempt, which stays time_expired until
\* complete, which is accepted on it, makes it completed.
C7_ExpiredSubmit ==
    [][ /\ \A i \in Rows :
              ( /\ Served("submit") /\ last'.attempt = i
                /\ attempts[i].status = "in_progress"
                /\ attempts[i].expires_at # NoTime /\ now > attempts[i].expires_at )
              => ( /\ last'.result = "400_expired"
                   /\ attempts'[i].status = "time_expired"
                   /\ responses' = responses )
        /\ \A i \in Rows :
              attempts[i].status = "time_expired"
              => /\ attempts'[i].status \in {"time_expired", "completed"}
                 /\ (Served("submit") /\ last'.attempt = i)
                        => (last'.result = "404" /\ responses' = responses)
                 /\ Served("submit")
                        => ResponsesOf(responses', i) = ResponsesOf(responses, i)
                 /\ (Served("complete") /\ last'.attempt = i)
                        => (last'.result = "200" /\ attempts'[i].status = "completed") ]_vars

\* a submit was rejected for expiry and left the attempt time_expired
C7_Witness ==
    /\ last.op = "submit" /\ last.result = "400_expired"
    /\ last.attempt \in Rows
    /\ attempts[last.attempt].status = "time_expired"
    /\ ResponsesOf(responses, last.attempt) # {}

ScoreState(a) ==
    <<a.status, a.score_points, a.score_percentage, a.passed, a.completed_at>>

C9_ScoreIsSumOfPointsEarned ==
    \A i \in Rows :
        (attempts[i].status = "completed"
            \/ (last.op = "grade" /\ last.result = "200" /\ last.attempt = i))
        => attempts[i].score_points = PointsEarned(ResponsesOf(responses, i))

\* C10: with total response points > 0, passed holds iff
\* earned * 100 >= passing_score * total, compared exactly.
C10_PassedExact ==
    (calc.done /\ calc.total > 0)
        => (calc.passed <=> calc.earned * 100 >= calc.passing_score * calc.total)

\* C11: calculate_score on an attempt whose responses' question points sum to
\* 0 (no Responses) gives score_percentage 0 and passed false, for every
\* passing_score in 0..100.
C11_EmptyAttemptFails ==
    (calc.done /\ calc.total = 0)
        => (calc.score_percentage = FZero /\ calc.passed = FALSE)

\* C12: a resubmission that leaves the stored payload of an ungraded Response
\* as it was (the same payload submitted again) leaves its is_correct and
\* points_earned as they were; every resubmission leaves one Response for the
\* pair, carrying the evaluator's result for the payload now stored.
C12_ResubmitIdempotent ==
    [][ (Served("submit") /\ last'.result = "200_updated")
            => /\ \A r \in responses, r2 \in responses' :
                     ( /\ r2.attempt = r.attempt /\ r2.question = r.question
                       /\ ~r.feedback
                       /\ r2.text_response = r.text_response
                       /\ r2.selected_answers = r.selected_answers )
                     => ( /\ r2.is_correct = r.is_correct
                          /\ r2.points_earned = r.points_earned )
               /\ \A r2 \in responses' \ responses : CorrectFor(r2)
               /\ Cardinality(responses') = Cardinality(responses) ]_vars

\* the answers of question q flagged correct
CorrectAnswers(q) ==
    {a \in AnswerIds : Answer[a].question = q /\ Answer[a].is_correct}

\* the Response a served submit names
Submitted(rows) ==
    {r \in rows : r.attempt = last'.attempt /\ r.question = last'.question}

\* C13: an evaluated response to a true_false question is_correct iff
\* exactly one answer is selected and it is the question's correct answer
\* (no answer, or several answers including the correct one, is incorrect).
C13_TrueFalseSingle ==
    [][ ( /\ Served("submit") /\ last'.result = "200_updated"
          /\ Question[last'.question].question_type = "true_false" )
            => \A r \in Submitted(responses') :
                   r.is_correct
                       <=> ( /\ Cardinality(r.selected_answers) = 1
                             /\ r.selected_answers = CorrectAnswers(r.question) ) ]_vars

\* C14: a response to a multiple_choice question evaluated for a request
\* carrying selected_answer_ids is_correct iff the set of submitted ids
\* equals the set of ids of the question's answers flagged correct.
C14_MultipleChoiceSetEquality ==
    [][ ( /\ Served("submit") /\ last'.result = "200_updated"
          /\ Question[last'.question].question_type = "multiple_choice"
          /\ Has(last'.payload, "selected_answer_ids") )
            => \A r \in Submitted(responses') :
                   r.is_correct
                       <=> last'.payload.selected_answer_ids
                               = CorrectAnswers(r.question) ]_vars

\* C15: an essay Response has is_correct false and points_earned 0 until it
\* is graded; grade_essay_response with 0 <= p <= question.points sets
\* points_earned = p and is_correct = (p = question.points); with p outside
\* that range it fails and leaves the responses and the attempts unchanged.
C15_EssayGrading ==
    [][ /\ \A r \in responses' :
              (Question[r.question].question_type = "essay" /\ ~r.feedback)
                  => (~r.is_correct /\ r.points_earned = 0)
        /\ Served("grade") /\ last'.result # "404"
              => LET p == last'.points
                     max == Question[last'.question].points
                 IN  IF 0 <= p /\ p <= max
                     THEN /\ last'.result = "200"
                          /\ \A r \in Submitted(responses') :
                                 /\ r.points_earned = p
                                 /\ r.is_correct = (p = max)
                     ELSE /\ last'.result = "400_points"
                          /\ responses' = responses
                          /\ attempts' = attempts ]_vars

\* C16: in every reachable state the question of each Response belongs to
\* the quiz of the Response's attempt, whatever the payloads carried (a
\* 'question' field included).
C16_ResponseQuestionInQuiz ==
    \A r \in responses : r.question \in quiz.questions

\* C17: under any interleaving of submit_response requests there is at most
\* one Response per (attempt, question) pair, and no two requests both
\* create a Response for the same pair (the later one updates the row).
C17_OneResponsePerPair ==
    /\ \A r1, r2 \in responses :
          (r1.attempt = r2.attempt /\ r1.question = r2.question) => r1 = r2
    /\ \A p, p2 \in Procs :
          ( /\ p # p2
            /\ req[p].pc = "done" /\ req[p].result = "200_created"
            /\ req[p2].pc = "done" /\ req[p2].result = "200_created" )
          => req[p].question # req[p2].question

\* a request lost the race for the insert, read the winner's row and
\* updated it, and the pair has one Response
C17_Witness ==
    \E p, p2 \in Procs :
        /\ p # p2
        /\ req[p].pc = "done" /\ req[p].raced /\ req[p].result = "200_updated"
        /\ req[p2].pc = "done" /\ req[p2].result = "200_created"
        /\ req[p2].question = req[p].question
        /\ req[p2].payload # req[p].payload
        /\ Cardinality({r \in responses : r.question = req[p].question}) = 1

\* C18: after any sequence of question create, update and delete operations
\* quiz.total_points is the sum of the points of the quiz's questions.
C18_TotalPointsIsSum ==
    last.op \in {"create_question", "update_question", "delete_question"}
        => quiz.total_points = SumOver(quiz.questions, quiz.points)

\* C19: completing an attempt does not modify the quiz's QuizAnalytics
\* record; the record changes only in a get_analytics request.
C19_AnalyticsOnlyOnDemand ==
    [][ analytics' # analytics => Served("analytics") ]_vars

\* C20: a payout request with a verified bank account, an amount of at
\* least 10.00 and at most pending_balance creates exactly one PayoutRequest
\* in status requested and lowers pending_balance by exactly its amount;
\* with no bank account, an unverified one, an amount below 10.00 or above
\* pending_balance it creates no PayoutRequest and leaves the earnings row
\* unchanged.
C20_PayoutAllOrNothing ==
    [][ Served("payout") =>
            LET amount == last'.amount
                e == ledger.earnings
                n == Len(ledger.payout_requests)
            IN  IF /\ ledger.bank_account = "verified"
                   /\ amount >= 1000
                   /\ e.exists /\ amount <= e.pending_balance
                THEN /\ ledger'.payout_requests =
                            Append(ledger.payout_requests,
                                   [amount |-> amount, status |-> "requested"])
                     /\ ledger'.earnings =
                            [e EXCEPT !.pending_balance = e.pending_balance - amount]
                     /\ ledger'.earnings.pending_balance >= 0
                ELSE /\ ledger'.payout_requests = ledger.payout_requests
                     /\ ledger'.earnings = ledger.earnings ]_vars

\* two payout requests were created and the balance is used up; the last
\* request served was refused for an insufficient balance
C20_Witness ==
    /\ last.op = "payout" /\ last.result = "400_insufficient"
    /\ Len(ledger.payout_requests) = 2
    /\ ledger.earnings.pending_balance = 0

C22_StatusChangesAllowed ==
    [][ \A i \in 1 .. Len(attempts') :
            /\ attempts'[i].status \notin {"abandoned", "not_started"}
            /\ (i \in Rows /\ attempts'[i].status # attempts[i].status)
                  => <<attempts[i].status, attempts'[i].status>> \in
                         { <<"not_started", "in_progress">>,
                           <<"in_progress", "time_expired">>,
                           <<"in_progress", "completed">>,
                           <<"time_expired", "completed">> }
            /\ i \notin Rows => attempts'[i].status = "in_progress" ]_vars

\* C26: at every moment each (quiz, student) pair has at most one attempt
\* in status in_progress, under any interleaving of start requests with
\* submit_response and complete requests.
C26_OneInProgress ==
    \A s \in Students :
        Cardinality({i \in AttemptsOf(attempts, s) :
                        attempts[i].status = "in_progress"}) <= 1

\* a second attempt is in progress after the first was closed, and a start
\* request that raced for its attempt_number lost on the unique constraint
C26_Witness ==
    /\ Len(attempts) = 2
    /\ attempts[1].status \in {"completed", "time_expired"}
    /\ attempts[2].status = "in_progress"
    /\ \E p \in Procs : req[p].pc = "done" /\ req[p].result = "500_integrity"

\* C23: a start by an actively enrolled student on an available quiz, while
\* the pair's in_progress attempt is past its expires_at, turns that attempt
\* time_expired, whatever the attempt count is; it creates a new in_progress
\* attempt, numbered count + 1, only if the count is below max_attempts.
C23_StartExpiresFirst ==
    [][ \A s \in Students :
            LET ip == InProgressOf(attempts, s)
                count == Cardinality(AttemptsOf(attempts, s))
            IN  ( /\ Served("start")
                  /\ enrollment = "active" /\ is_available(quiz, now)
                  /\ ip # 0
                  /\ attempts[ip].expires_at # NoTime /\ now > attempts[ip].expires_at )
                => ( /\ attempts'[ip].status = "time_expired"
                     /\ Len(attempts') > Len(attempts)
                          => ( /\ count < quiz.max_attempts
                               /\ attempts'[Len(attempts')].status = "in_progress"
                               /\ attempts'[Len(attempts')].attempt_number = count + 1 ) ) ]_vars

\* C24: after calculate_analytics total_attempts is the number of attempts
\* of the quiz and completed_attempts the number of them in status
\* completed; with no completed attempt average_score, pass_rate,
\* average_completion_time and question_stats keep their values (and
\* nothing is divided by zero); otherwise pass_rate is
\* passed completed attempts / completed attempts * 100.
C24_AnalyticsCounts ==
    [][ Served("calculate") =>
            LET done == {i \in Rows : attempts[i].status = "completed"}
                n == Cardinality(done)
                passed == Cardinality({i \in done : attempts[i].passed})
            IN  /\ analytics'.total_attempts = Len(attempts)
                /\ analytics'.completed_attempts = n
                /\ n = 0 =>
                      /\ analytics'.average_score = analytics.average_score
                      /\ analytics'.pass_rate = analytics.pass_rate
                      /\ analytics'.average_completion_time
                            = analytics.average_completion_time
                      /\ analytics'.question_stats = analytics.question_stats
                /\ n > 0 =>
                      analytics'.pass_rate = FMulInt(FDivInt(passed, n), 100) ]_vars

\* the analytics were calculated over attempts none of which is completed,
\* and the row keeps the pass_rate and question_stats it held
C24_Witness ==
    /\ last.op = "calculate"
    /\ analytics.total_attempts = Len(attempts) /\ Len(attempts) > 0
    /\ analytics.completed_attempts = 0
    /\ analytics.pass_rate = Hundred
    /\ DOMAIN analytics.question_stats = {"q1"}

\* C25: quiz_settings and expires_at of an attempt are written by start
\* only: attempt rows appear in start requests only, and no edit of the
\* quiz (flags, time limit), submit_response, complete or grading changes
\* the quiz_settings or the expires_at of a row.
C25_SnapshotFrozen ==
    [][ /\ Len(attempts') # Len(attempts) => Served("start")
        /\ \A i \in Rows :
              /\ attempts'[i].quiz_settings = attempts[i].quiz_settings
              /\ attempts'[i].expires_at = attempts[i].expires_at ]_vars

\* an untimed attempt started under the default flags was completed and its
\* essay graded after the quiz was given a time limit and other flags: the
\* attempt still carries the flags and the empty expires_at of its start
C25_Witness ==
    /\ last.op = "grade" /\ last.result = "200"
    /\ last.attempt \in Rows
    /\ attempts[last.attempt].status = "completed"
    /\ quiz.time_limit_minutes # 0 /\ quiz.flags # DefaultFlags
    /\ attempts[last.attempt].expires_at = NoTime
    /\ attempts[last.attempt].quiz_settings = DefaultFlags

\* C27: when submit_response and complete run concurrently on an attempt,
\* then in every interleaving, once the requests are served, the completed
\* attempt's score_points and score_percentage are the aggregate over the
\* Responses stored for the attempt (no Response is created or evaluated
\* again after the score was computed).
C27_ScoreCoversResponses ==
    (\A p \in Procs : req[p].pc \in {"idle", "done"})
        => \A i \in Rows :
               attempts[i].status = "completed"
               => LET a == calculate_score(attempts[i], ResponsesOf(responses, i), quiz)
                  IN  /\ attempts[i].score_points = a.score_points
                      /\ attempts[i].score_percentage = a.score_percentage

\* C28: after any sequence of sales, payout requests, cancellations by the
\* teacher and status updates by the admin, the earnings row satisfies
\* total_net_earnings = pending_balance + total_paid_out + the amounts of
\* the payout requests in status requested or processing, and
\* pending_balance >= 0.
C28_LedgerBalanced ==
    ledger.earnings.exists =>
        LET open == {i \in 1 .. Len(ledger.payout_requests) :
                        ledger.payout_requests[i].status \in {"requested", "processing"}}
            reserved == SumOver(open, [i \in open |-> ledger.payout_requests[i].amount])
        IN  /\ ledger.earnings.total_net_earnings
                  = ledger.earnings.pending_balance
                        + ledger.earnings.total_paid_out + reserved
            /\ ledger.earnings.pending_balance >= 0

\* C29: once confirm_payment has been served for the payment intent in
\* gateway status succeeded, however many times, the instructor's
\* total_gross_revenue, total_net_earnings and pending_balance hold the
\* payment's credit exactly once, exactly one PayoutTransaction exists for
\* the payment, its commission_amount + net_amount = gross_amount, and the
\* buyer's enrollment is active.
C29_CreditedOnce ==
    (ledger.payment.intent = "succeeded" /\ last.op = "confirm") =>
        /\ ledger.earnings = add_sale(NewEarnings, ledger.payment.amount)
        /\ Len(ledger.transactions) = 1
        /\ ledger.transactions[1].commission_amount + ledger.transactions[1].net_amount
              = ledger.transactions[1].gross_amount
        /\ enrollment = "active"

\* C30: after any sequence of refund calls on a payment,
\* 0 <= refunded_amount <= amount, the status is refunded iff
\* refunded_amount = amount and partially_refunded iff
\* 0 < refunded_amount < amount; a call with an explicit amount a,
\* 0 <= a <= amount - refunded_amount, on a refundable payment that the
\* gateway accepts increases refunded_amount by exactly a; and a rejected
\* call leaves the payment unchanged.
C30_RefundExact ==
    /\ [](/\ 0 <= ledger.payment.refunded_amount
          /\ ledger.payment.refunded_amount <= ledger.payment.amount
          /\ ledger.payment.status = "refunded"
                <=> ledger.payment.refunded_amount = ledger.payment.amount
          /\ ledger.payment.status = "partially_refunded"
                <=> (/\ 0 < ledger.payment.refunded_amount
                     /\ ledger.payment.refunded_amount < ledger.payment.amount))
    /\ [][\A data \in RefundData :
            /\ (/\ request_refund(data, TRUE)
                /\ data.has_amount
                /\ can_be_refunded(ledger.payment)
                /\ data.amount <= ledger.payment.amount - ledger.payment.refunded_amount)
                  => ledger'.payment.refunded_amount
                        = ledger.payment.refunded_amount + data.amount
            /\ ((\E ok \in BOOLEAN : request_refund(data, ok)) /\ last'.result # "200")
                  => ledger'.payment = ledger.payment]_vars

====
